---- MODULE Spec2Model ----
(***************************************************************************)
(* A model of pyfighter/models/player.py: the Player entity of PyFighter.  *)
(* The Player's fields are the variables; every public method is one       *)
(* action.  The environment supplies the clock (pygame.time.get_ticks),    *)
(* the candidate lists and the outcome of the collision primitive.         *)
(***************************************************************************)
EXTENDS Integers, Sequences, FiniteSets, TLC

(* ------------------------------ bounds --------------------------------- *)
\* largest value BASE_CANNON_COOLDOWN is drawn from (the constant lives in
\* constants.py; the model covers every value 1..MaxThreshold)
MaxThreshold == 3
\* lasers a run may spawn
MaxLasers == 2
\* largest initial hp of a candidate
MaxHp == 4
\* most frames an idle animation is given
MaxFrames == 3
\* update_idle_animation() calls a run may make
MaxAnimCounter == 11
\* latest clock reading (milliseconds)
MaxTime == 400
\* the steps the clock advances by between calls (milliseconds)
Deltas == {50, 200}
\* the candidates (enemy actors) of the environment
Objs == {"e1", "e2"}
\* Python's None in a candidate list
None == "None"

(* ------------------------- program constants --------------------------- *)
\* self.missile_count = 2
InitialMissiles == 2
\* obj.hp -= 1 in resolve_hits
LaserHitDamage == 1
\* obj.hp -= 3 in resolve_missiles
MissileHitDamage == 3
\* if self.animation_counter % 5 == 0
FrameDelay == 5
\* self.glow_effect_duration = 200
glow_effect_duration == 200

VARIABLES
    cooldown_threshold,         \* self.cooldown_threshold
    cooldown_counter,           \* self.cooldown_counter
    missile_cooldown_threshold, \* self.missile_cooldown_threshold
    missile_cooldown_counter,   \* self.missile_cooldown_counter
    missile_count,              \* self.missile_count
    lasers_fired,               \* self.lasers_fired: the live lasers (identities)
    missiles_fired,             \* self.missiles_fired: the live missiles (identities)
    lasers_made,                \* number of laser Actors constructed so far
    missiles_made,              \* number of Missile objects constructed so far
    obj_hp,                     \* hp of every candidate of the environment
    cannon_ticks,               \* cooldown_cannon() calls since the last successful shoot (-1: none yet)
    missile_ticks,              \* cooldown_missiles() calls since the last successful fire_missle (-1: none yet)
    idle_animation_frames,      \* self.idle_animation_frames: the list of Surface objects (identities)
    current_frame,              \* self.current_frame
    animation_counter,          \* self.animation_counter
    img,                        \* self.img: the displayed Surface object (identity)
    glow_effect_end_time,       \* self.glow_effect_end_time
    original_images,            \* self.original_images: frame index -> Surface object (identity)
    surfaces,                   \* the pixels of every Surface object that can still be reached
    now,                        \* pygame.time.get_ticks()
    frame_log,                  \* current_frame and animation_counter before each of the last 5 update calls
    quiet_calls,                \* how many of the latest update calls in a row found no glow active (up to 5)
    last                        \* what the last call was, what it returned and which sounds it played

weaponVars == <<cooldown_threshold, cooldown_counter, missile_cooldown_threshold,
                missile_cooldown_counter, missile_count, lasers_fired, missiles_fired,
                lasers_made, missiles_made, cannon_ticks, missile_ticks>>

animVars == <<idle_animation_frames, current_frame, animation_counter, img,
              glow_effect_end_time, original_images, surfaces, frame_log, quiet_calls>>

vars == <<weaponVars, obj_hp, animVars, now, last>>

(* ------------------------------ helpers -------------------------------- *)
\* the four Sound handles of the Player: how often each was played by a call
NoSfx == [laser |-> 0, laser_hit |-> 0, explosion |-> 0, missile |-> 0]

\* a call record: op, the projectile it spawned or resolved, the colliding
\* non-null entries of the candidate list (in list order), the returned list,
\* the objects whose kill() ran (in order), the sounds played, and whether a
\* fire call took effect; for update_idle_animation whether the glow was
\* active and whether the call raised; for start_glow_effect the clock reading
\* and the end time before the call; collided is an input of a resolve call, the
\* candidates of the list that overlap the projectile, in list order
Call(op) == [op |-> op, proj |-> 0, struck |-> <<>>, collided |-> <<>>,
             ret |-> <<>>, killed |-> <<>>, sfx |-> NoSfx, fired |-> FALSE,
             glow |-> FALSE, raised |-> FALSE, at |-> 0, before |-> 0]

Min(a, b) == IF a < b THEN a ELSE b

\* candidate lists: up to one entry per candidate of the environment, in every
\* order, an entry being a candidate or None; no entry twice
CandLists ==
    { s \in UNION { [1..n -> Objs \cup {None}] : n \in 0..Cardinality(Objs) } :
        \A i, j \in 1..Len(s) : i # j => s[i] # s[j] }

\* the candidates of a list (its entries that are not None)
Entries(objs) == { objs[i] : i \in 1..Len(objs) } \ {None}

(* ------------------------------ surfaces ------------------------------- *)
\* A Surface is an object: the list, self.img and the cache hold references.
\* Its content is one pixel (r, g, b), 8 bits a channel.
SurfIds == 0..(2 * MaxFrames + 1)

\* the art the caller loaded: the ship image and idle frame idx (0-based)
ShipPixel == [r |-> 90, g |-> 90, b |-> 90]
OriginalPixel(idx) == [r |-> 10 * (idx + 1), g |-> 40, b |-> 200]

\* pygame.Color("yellow")
glow_color == [r |-> 255, g |-> 255, b |-> 0]

\* Surface.fill(color, special_flags=BLEND_ADD): channel-wise saturating add
blend_add_fill(pixel, color) ==
    [r |-> Min(255, pixel.r + color.r),
     g |-> Min(255, pixel.g + color.g),
     b |-> Min(255, pixel.b + color.b)]

\* the identity a new Surface object gets: the least one no live object has
NewSurface(heap) ==
    CHOOSE s \in SurfIds \ DOMAIN heap : \A t \in SurfIds \ DOMAIN heap : s <= t

Range(f) == { f[x] : x \in DOMAIN f }

\* the Surface objects the Player can still reach; the others are garbage
Reachable(frames, image, cache) == Range(frames) \cup {image} \cup Range(cache)

Restrict(f, S) == [x \in DOMAIN f \cap S |-> f[x]]

\* the empty dict
EmptyDict == [k \in {} |-> 0]

(* ------------------------------- Init ---------------------------------- *)
Init ==
    /\ cooldown_threshold \in 1..MaxThreshold
    /\ missile_cooldown_threshold = cooldown_threshold
    /\ cooldown_counter = 0
    /\ missile_cooldown_counter = 0
    /\ missile_count = InitialMissiles
    /\ lasers_fired = {}
    /\ missiles_fired = {}
    /\ lasers_made = 0
    /\ missiles_made = 0
    /\ obj_hp \in [Objs -> 1..MaxHp]
    /\ cannon_ticks = -1
    /\ missile_ticks = -1
    /\ \E n \in 0..MaxFrames :
          /\ idle_animation_frames = [i \in 1..n |-> i]
          /\ surfaces = [s \in 0..n |-> IF s = 0 THEN ShipPixel ELSE OriginalPixel(s - 1)]
    /\ img = 0
    /\ current_frame = 0
    /\ animation_counter = 0
    /\ glow_effect_end_time = 0
    /\ original_images = EmptyDict
    /\ now = 0
    /\ frame_log = <<>>
    /\ quiet_calls = 0
    /\ last = Call("init")

(* ------------------------------ shoot ---------------------------------- *)
\* at most 1: a cooling cannon taken for a ready one
cannon_ready_while_cooling(counter) == counter <= 1

\* the guard of shoot: 0 = player is ready to fire
cannon_ready(counter) == counter = 0

shoot ==
    /\ cannon_ready(cooldown_counter) => lasers_made < MaxLasers
    /\ IF cannon_ready(cooldown_counter)
       THEN /\ lasers_made' = lasers_made + 1
            /\ lasers_fired' = lasers_fired \cup {lasers_made + 1}
            /\ cooldown_counter' = 1
            /\ cannon_ticks' = 0
            /\ last' = [Call("shoot") EXCEPT !.proj = lasers_made + 1,
                                             !.sfx.laser = 1, !.fired = TRUE]
       ELSE /\ UNCHANGED <<lasers_made, lasers_fired, cooldown_counter, cannon_ticks>>
            /\ last' = Call("shoot")
    /\ UNCHANGED <<cooldown_threshold, missile_cooldown_threshold, missile_cooldown_counter,
                   missile_count, missiles_fired, missiles_made, missile_ticks, obj_hp,
                   animVars, now>>

(* -------------------------- cooldown_cannon ---------------------------- *)
\* > for >=: the reset comes one tick late
cooldown_cannon_late_reset(counter, threshold) ==
    IF counter > threshold THEN 0
    ELSE IF counter > 0 THEN counter + 1
    ELSE counter

\* the reset comes one tick early
cooldown_cannon_early_reset(counter, threshold) ==
    IF counter >= threshold - 1 THEN 0
    ELSE IF counter > 0 THEN counter + 1
    ELSE counter

\* the reset forgotten: the counter stops at the threshold
cooldown_cannon_no_reset(counter, threshold) ==
    IF counter > 0 THEN Min(counter + 1, threshold)
    ELSE counter

\* the counter after one cooldown_cannon() call
cooldown_cannon_counter(counter, threshold) ==
    IF counter >= threshold THEN 0
    ELSE IF counter > 0 THEN counter + 1
    ELSE counter

\* ticks since the last successful fire, counted up to threshold ("or more")
TickCount(ticks, threshold) ==
    IF ticks = -1 THEN -1 ELSE Min(ticks + 1, threshold)

cooldown_cannon ==
    /\ cooldown_counter' = cooldown_cannon_counter(cooldown_counter, cooldown_threshold)
    /\ cannon_ticks' = TickCount(cannon_ticks, cooldown_threshold)
    /\ last' = Call("cooldown_cannon")
    /\ UNCHANGED <<cooldown_threshold, missile_cooldown_threshold, missile_cooldown_counter,
                   missile_count, lasers_fired, missiles_fired, lasers_made, missiles_made,
                   missile_ticks, obj_hp, animVars, now>>

(* ------------------------- cooldown_missiles --------------------------- *)
\* the reset comes one tick early
cooldown_missiles_early_reset(counter, threshold) ==
    IF counter >= threshold - 1 THEN 0
    ELSE IF counter > 0 THEN counter + 1
    ELSE counter

\* the counter after one cooldown_missiles() call
cooldown_missiles_counter(counter, threshold) ==
    IF counter >= threshold THEN 0
    ELSE IF counter > 0 THEN counter + 1
    ELSE counter

\* the method body working on the cannon's counter instead of the missiles'
cooldown_missiles_on_cannon_counter ==
    /\ cooldown_counter' =
           cooldown_missiles_counter(cooldown_counter, missile_cooldown_threshold)
    /\ last' = Call("cooldown_missiles")
    /\ UNCHANGED <<cooldown_threshold, missile_cooldown_threshold, missile_cooldown_counter,
                   missile_count, lasers_fired, missiles_fired, lasers_made, missiles_made,
                   cannon_ticks, missile_ticks, obj_hp, animVars, now>>

cooldown_missiles ==
    /\ missile_cooldown_counter' =
           cooldown_missiles_counter(missile_cooldown_counter, missile_cooldown_threshold)
    /\ missile_ticks' = TickCount(missile_ticks, missile_cooldown_threshold)
    /\ last' = Call("cooldown_missiles")
    /\ UNCHANGED <<cooldown_threshold, cooldown_counter, missile_cooldown_threshold,
                   missile_count, lasers_fired, missiles_fired, lasers_made, missiles_made,
                   cannon_ticks, obj_hp, animVars, now>>

(* ----------------------------- fire_missle ----------------------------- *)
\* the missile count forgotten in the guard
missile_ready_any_count(count, counter) == counter = 0

\* the cooldown forgotten in the guard
missile_ready_ignoring_cooldown(count, counter) == count > 0

\* the guard of fire_missle
missile_ready(count, counter) == count > 0 /\ counter = 0

\* the decrement forgotten: the stock is never used up
missile_count_kept_after_fire(count) == count

\* self.missile_count -= 1
missile_count_after_fire(count) == count - 1

\* Missile.lock(self.pos, targets) only aims the new missile; the targets
\* argument does not reach the Player's state
fire_missle ==
    /\ IF missile_ready(missile_count, missile_cooldown_counter)
       THEN /\ missiles_made' = missiles_made + 1
            /\ missiles_fired' = missiles_fired \cup {missiles_made + 1}
            /\ missile_count' = missile_count_after_fire(missile_count)
            /\ missile_cooldown_counter' = 1
            /\ missile_ticks' = 0
            /\ last' = [Call("fire_missle") EXCEPT !.proj = missiles_made + 1,
                                                   !.sfx.missile = 1, !.fired = TRUE]
       ELSE /\ UNCHANGED <<missiles_made, missiles_fired, missile_count,
                           missile_cooldown_counter, missile_ticks>>
            /\ last' = Call("fire_missle")
    /\ UNCHANGED <<cooldown_threshold, cooldown_counter, missile_cooldown_threshold,
                   lasers_fired, lasers_made, cannon_ticks, obj_hp, animVars, now>>

(* ------------------------ collision resolution ------------------------- *)
\* Actor.resolve_collision(projectile, obj): the pixel-mask overlap test; hits
\* is the set of candidates the projectile overlaps when the call is made
resolve_collision(hits, obj) == obj \in hits

\* Group.remove(sprite): removing a sprite that is not a member does nothing
group_remove(group, sprite) == group \ {sprite}

\* < for <=: a candidate at hp 0 survives
laser_kills_below_zero(hp) == hp < 0

\* the test `obj.hp <= 0` of resolve_hits
laser_kills(hp) == hp <= 0

\* < for <=: a candidate at hp 0 survives
missile_kills_below_zero(hp) == hp < 0

\* the test `obj.hp <= 0` of resolve_missiles
missile_kills(hp) == hp <= 0

\* the laser retired only by a lethal hit
lasers_after_lethal_hit(group, laser, dead) ==
    IF dead THEN group_remove(group, laser) ELSE group

\* self.lasers_fired.remove(laser), run on every hit
lasers_after_hit(group, laser, dead) == group_remove(group, laser)

\* self.missiles_fired.remove(missile), run on every hit
missiles_after_hit(group, missile, dead) == group_remove(group, missile)

\* the laser hits only while it is still in lasers_fired
laser_hits_while_live(group, laser, hits, obj) ==
    obj # None /\ resolve_collision(hits, obj) /\ laser \in group

\* the test `obj is not None and obj.resolve_collision(laser)`; it does not
\* look at the live collection
laser_hits(group, laser, hits, obj) ==
    obj # None /\ resolve_collision(hits, obj)

\* the candidates of the list that overlap the projectile, in list order
Colliding(objs, hits) == SelectSeq(objs, LAMBDA o : o \in hits)

\* the loop of resolve_hits from entry i on; st carries what the loop changes
RECURSIVE resolve_hits_loop(_, _, _, _, _)
resolve_hits_loop(laser, objs, hits, i, st) ==
    IF i > Len(objs) THEN st
    ELSE LET obj == objs[i] IN
         IF laser_hits(st.group, laser, hits, obj)
         THEN LET hp1 == st.hp[obj] - LaserHitDamage
                  dead == laser_kills(hp1)
                  st1 == [st EXCEPT
                            !.hp[obj] = hp1,
                            !.sfx.laser_hit = @ + 1,
                            !.sfx.explosion = IF dead THEN @ + 1 ELSE @,
                            !.killed = IF dead THEN Append(@, obj) ELSE @,
                            !.ret = IF dead THEN Append(@, obj) ELSE @,
                            !.struck = Append(@, obj),
                            !.group = lasers_after_hit(@, laser, dead)]
              IN resolve_hits_loop(laser, objs, hits, i + 1, st1)
         ELSE resolve_hits_loop(laser, objs, hits, i + 1, st)

\* the loop of resolve_missiles from entry i on
RECURSIVE resolve_missiles_loop(_, _, _, _, _)
resolve_missiles_loop(missile, objs, hits, i, st) ==
    IF i > Len(objs) THEN st
    ELSE LET obj == objs[i] IN
         IF obj # None /\ resolve_collision(hits, obj)
         THEN LET hp1 == st.hp[obj] - MissileHitDamage
                  dead == missile_kills(hp1)
                  st1 == [st EXCEPT
                            !.hp[obj] = hp1,
                            !.sfx.explosion = @ + 1,
                            !.killed = IF dead THEN Append(@, obj) ELSE @,
                            !.ret = IF dead THEN Append(@, obj) ELSE @,
                            !.struck = Append(@, obj),
                            !.group = missiles_after_hit(@, missile, dead)]
              IN resolve_missiles_loop(missile, objs, hits, i + 1, st1)
         ELSE resolve_missiles_loop(missile, objs, hits, i + 1, st)

LoopStart(group) ==
    [hp |-> obj_hp, group |-> group, ret |-> <<>>, killed |-> <<>>,
     struck |-> <<>>, sfx |-> NoSfx]

\* the game loop resolves every live laser against the current candidates
resolve_hits(laser, objs, hits) ==
    LET st == resolve_hits_loop(laser, objs, hits, 1, LoopStart(lasers_fired)) IN
    /\ obj_hp' = st.hp
    /\ lasers_fired' = st.group
    /\ last' = [Call("resolve_hits") EXCEPT !.proj = laser, !.struck = st.struck, !.collided = Colliding(objs, hits), !.ret = st.ret, !.killed = st.killed,
                   !.sfx = st.sfx]
    /\ UNCHANGED <<cooldown_threshold, cooldown_counter, missile_cooldown_threshold,
                   missile_cooldown_counter, missile_count, missiles_fired, lasers_made,
                   missiles_made, cannon_ticks, missile_ticks, animVars, now>>

resolve_missiles(missile, objs, hits) ==
    LET st == resolve_missiles_loop(missile, objs, hits, 1, LoopStart(missiles_fired)) IN
    /\ obj_hp' = st.hp
    /\ missiles_fired' = st.group
    /\ last' = [Call("resolve_missiles") EXCEPT !.proj = missile, !.struck = st.struck, !.collided = Colliding(objs, hits), !.ret = st.ret, !.killed = st.killed,
                   !.sfx = st.sfx]
    /\ UNCHANGED <<cooldown_threshold, cooldown_counter, missile_cooldown_threshold,
                   missile_cooldown_counter, missile_count, lasers_fired, lasers_made,
                   missiles_made, cannon_ticks, missile_ticks, animVars, now>>

ResolveHits ==
    \E laser \in lasers_fired, objs \in CandLists :
        \E hits \in SUBSET Entries(objs) : resolve_hits(laser, objs, hits)

ResolveMissiles ==
    \E missile \in missiles_fired, objs \in CandLists :
        \E hits \in SUBSET Entries(objs) : resolve_missiles(missile, objs, hits)

(* ------------------------ update_idle_animation ------------------------ *)
\* a wrong modulus: the frame advances every 4th call
frame_advances_too_often(counter) == counter % (FrameDelay - 1) = 0

\* the test `self.animation_counter % 5 == 0`
frame_advances(counter) == counter % FrameDelay = 0

\* (self.current_frame + 1) % len(self.idle_animation_frames)
next_frame(frame, n) == (frame + 1) % n

\* the test `pygame.time.get_ticks() < self.glow_effect_end_time`
glow_active(ticks, end_time) == ticks < end_time

\* the test `not self.original_images.get(self.current_frame)`: a Surface is truthy
not_cached(cache, frame) == frame \notin DOMAIN cache

\* the else branch: every cached image goes back into the list
restore_frames(frames, cache) ==
    [i \in DOMAIN frames |-> IF (i - 1) \in DOMAIN cache THEN cache[i - 1] ELSE frames[i]]

\* the clear() forgotten: the restored entries stay in the cache
cache_kept_after_restore(cache) == cache

\* self.original_images.clear()
cache_after_restore(cache) == EmptyDict

\* the log of the latest 5 calls
Logged(log, entry) ==
    IF Len(log) < 5 THEN Append(log, entry) ELSE Append(Tail(log), entry)

update_idle_animation ==
    LET n == Len(idle_animation_frames)
        advance == frame_advances(animation_counter)
    IN
    /\ animation_counter < MaxAnimCounter
    /\ IF advance /\ n = 0
       THEN \* ZeroDivisionError at `% len(self.idle_animation_frames)`
            /\ last' = [Call("update_idle_animation") EXCEPT !.raised = TRUE]
            /\ UNCHANGED animVars
       ELSE LET frame1 == IF advance THEN next_frame(current_frame, n) ELSE current_frame
                img1 == IF advance THEN idle_animation_frames[frame1 + 1] ELSE img
                glow == glow_active(now, glow_effect_end_time)
                cache_it == glow /\ not_cached(original_images, frame1)
                copy == NewSurface(surfaces)
                heap1 == IF cache_it
                         THEN [s \in DOMAIN surfaces \cup {copy} |->
                                 IF s = copy THEN surfaces[img1] ELSE surfaces[s]]
                         ELSE surfaces
                cache1 == IF cache_it
                          THEN [k \in DOMAIN original_images \cup {frame1} |->
                                  IF k = frame1 THEN copy ELSE original_images[k]]
                          ELSE IF glow THEN original_images
                          ELSE cache_after_restore(original_images)
                heap2 == IF glow
                         THEN [heap1 EXCEPT ![img1] = blend_add_fill(@, glow_color)]
                         ELSE heap1
                frames1 == IF glow THEN idle_animation_frames
                           ELSE restore_frames(idle_animation_frames, original_images)
            IN /\ current_frame' = frame1
               /\ img' = img1
               /\ original_images' = cache1
               /\ idle_animation_frames' = frames1
               /\ surfaces' = Restrict(heap2, Reachable(frames1, img1, cache1))
               /\ animation_counter' = animation_counter + 1
               /\ frame_log' = Logged(frame_log, [frame |-> current_frame,
                                                  counter |-> animation_counter])
               /\ quiet_calls' = IF glow THEN 0 ELSE Min(quiet_calls + 1, 5)
               /\ glow_effect_end_time' = glow_effect_end_time
               /\ last' = [Call("update_idle_animation") EXCEPT !.glow = glow]
    /\ UNCHANGED <<weaponVars, obj_hp, now>>

(* -------------------------- start_glow_effect -------------------------- *)
\* the window extended from the previous end time, not reset
glow_end_additive(ticks, end_time) ==
    (IF end_time > ticks THEN end_time ELSE ticks) + glow_effect_duration

\* the end time start_glow_effect() sets
glow_end(ticks, end_time) == ticks + glow_effect_duration

start_glow_effect ==
    /\ glow_effect_end_time' = glow_end(now, glow_effect_end_time)
    /\ last' = [Call("start_glow_effect") EXCEPT !.at = now,
                                                 !.before = glow_effect_end_time]
    /\ UNCHANGED <<weaponVars, obj_hp, now, idle_animation_frames, current_frame,
                   animation_counter, img, original_images, surfaces, frame_log,
                   quiet_calls>>

(* ------------------------------ the clock ------------------------------ *)
\* pygame.time.get_ticks() is monotonic: time passes between two calls
Tick ==
    \E d \in Deltas :
        /\ now + d <= MaxTime
        /\ now' = now + d
        /\ UNCHANGED <<weaponVars, obj_hp, animVars, last>>

(* ---------------------------- specification ---------------------------- *)
Next ==
    \/ shoot
    \/ cooldown_cannon
    \/ fire_missle
    \/ cooldown_missiles
    \/ ResolveHits
    \/ ResolveMissiles
    \/ update_idle_animation
    \/ start_glow_effect
    \/ Tick

Spec == Init /\ [][Next]_vars

\* the cooldown state machines alone, for every threshold
NextCooldown ==
    \/ shoot
    \/ cooldown_cannon
    \/ fire_missle
    \/ cooldown_missiles

\* one idle frame, candidates at full hp
InitCooldown ==
    /\ Init
    /\ Len(idle_animation_frames) = 1
    /\ obj_hp = [o \in Objs |-> MaxHp]

SpecCooldown == InitCooldown /\ [][NextCooldown]_vars

\* the game loop keeps calling both cooldown methods
SpecCooldownFair ==
    SpecCooldown /\ WF_vars(cooldown_cannon) /\ WF_vars(cooldown_missiles)

\* a game loop whose every frame makes one shoot attempt and one
\* cooldown_cannon call: the two alternate, and either may come first
LoopShoot == last.op # "shoot" /\ shoot

LoopCooldown == last.op # "cooldown_cannon" /\ cooldown_cannon

NextLoop ==
    \/ LoopShoot
    \/ LoopCooldown

SpecLoop == Init /\ [][NextLoop]_vars

\* firing and collision resolution: the shortest cooldown, candidates at full hp
InitCombat ==
    /\ Init
    /\ cooldown_threshold = 1
    /\ obj_hp = [o \in Objs |-> MaxHp]
    /\ Len(idle_animation_frames) = 1

NextCombat ==
    \/ shoot
    \/ cooldown_cannon
    \/ fire_missle
    \/ cooldown_missiles
    \/ ResolveHits
    \/ ResolveMissiles

SpecCombat == InitCombat /\ [][NextCombat]_vars

\* the idle animation and the glow effect under the clock, for every frame count
InitAnimation ==
    /\ Init
    /\ cooldown_threshold = 1
    /\ obj_hp = [o \in Objs |-> MaxHp]

NextAnimation ==
    \/ update_idle_animation
    \/ start_glow_effect
    \/ Tick

SpecAnimation == InitAnimation /\ [][NextAnimation]_vars

(* ------------------------------- claims -------------------------------- *)
\* the Player's fields the weapon methods never touch
otherFields == <<cooldown_threshold, missile_cooldown_threshold, obj_hp, idle_animation_frames,
                 current_frame, animation_counter, img, glow_effect_end_time,
                 original_images, surfaces>>

\* C1: from a fresh Player with a threshold >= 1, under every sequence of
\* shoot, cooldown_cannon, fire_missle and cooldown_missiles calls, the cannon
\* counter stays in [0, cooldown_threshold] and the missile counter stays in
\* [0, missile_cooldown_threshold].
C1_CountersWithinThreshold ==
    /\ cooldown_counter \in 0..cooldown_threshold
    /\ missile_cooldown_counter \in 0..missile_cooldown_threshold

\* both counters have climbed to the largest threshold
C1_Witness ==
    /\ cooldown_threshold = MaxThreshold
    /\ cooldown_counter = cooldown_threshold
    /\ missile_cooldown_counter = missile_cooldown_threshold

\* C2: after a successful shoot the cannon counter is non-zero after each of
\* the first threshold-1 cooldown_cannon calls and 0 after the threshold-th;
\* the same for fire_missle and cooldown_missiles.
C2_ReadyAfterThresholdTicks ==
    /\ cannon_ticks \in 0..(cooldown_threshold - 1) => cooldown_counter # 0
    /\ cannon_ticks = cooldown_threshold => cooldown_counter = 0
    /\ missile_ticks \in 0..(missile_cooldown_threshold - 1) => missile_cooldown_counter # 0
    /\ missile_ticks = missile_cooldown_threshold => missile_cooldown_counter = 0

\* the threshold-th tick after a shot and after a missile, threshold above 1
C2_Witness ==
    /\ cooldown_threshold > 1
    /\ cannon_ticks = cooldown_threshold
    /\ missile_ticks = missile_cooldown_threshold
    /\ cooldown_counter = 0
    /\ missile_cooldown_counter = 0

\* C3: shoot with the counter at 0 adds exactly one (new) laser, plays the
\* fire sound once and sets the counter to 1; with the counter above 0 it adds
\* no laser, plays no sound and leaves the counter and every other field as
\* they were.
C3_ShootOnlyWhenReady ==
    [][last'.op = "shoot" =>
         IF cooldown_counter = 0
         THEN /\ \E l \in lasers_fired' \ lasers_fired :
                    /\ lasers_fired' = lasers_fired \cup {l}
                    /\ l \notin 1..lasers_made
              /\ last'.sfx = [NoSfx EXCEPT !.laser = 1]
              /\ cooldown_counter' = 1
              /\ UNCHANGED <<missile_cooldown_counter, missile_count, missiles_fired,
                             otherFields>>
         ELSE /\ last'.sfx = NoSfx
              /\ UNCHANGED <<cooldown_counter, lasers_fired, missile_cooldown_counter,
                             missile_count, missiles_fired, otherFields>>
    ]_vars

\* a shoot refused while cooling, after MaxLasers shots that took effect
C3_Witness ==
    /\ last.op = "shoot"
    /\ ~last.fired
    /\ cooldown_counter > 0
    /\ Cardinality(lasers_fired) = MaxLasers

\* C4: missile_count is never negative, and fire_missle with missile_count 0
\* leaves missile_count at 0, adds no missile and leaves the missile counter
\* unchanged.
C4_MissileCountNeverNegative ==
    [][/\ missile_count >= 0
       /\ missile_count' >= 0
       /\ (last'.op = "fire_missle" /\ missile_count = 0) =>
             /\ missile_count' = 0
             /\ missiles_fired' = missiles_fired
             /\ missile_cooldown_counter' = missile_cooldown_counter
             /\ last'.sfx = NoSfx
    ]_vars

\* fire_missle called out of missiles with the missile cooldown over
C4_Witness ==
    /\ last.op = "fire_missle"
    /\ ~last.fired
    /\ missile_count = 0
    /\ missile_cooldown_counter = 0
    /\ missiles_made = InitialMissiles

\* the entries of a candidate sequence whose hp is at most 0, in order
DeadOf(struck, hp) == SelectSeq(struck, LAMBDA o : hp[o] <= 0)

\* C5: resolve_hits with a single colliding live candidate of hp h >= 1 takes
\* exactly 1 hp from it; the candidate is killed and returned exactly once iff
\* its resulting hp is <= 0 (h = 1); for h >= 2 it is not killed and the
\* returned list is empty.
C5_LaserHitTakesOneHp ==
    [][(/\ last'.op = "resolve_hits"
        /\ Len(last'.struck) = 1
        /\ obj_hp[last'.struck[1]] >= 1) =>
           LET o == last'.struck[1] IN
           /\ obj_hp'[o] = obj_hp[o] - 1
           /\ \A other \in Objs \ {o} : obj_hp'[other] = obj_hp[other]
           /\ IF obj_hp[o] = 1
              THEN /\ obj_hp'[o] <= 0
                   /\ last'.killed = <<o>>
                   /\ last'.ret = <<o>>
              ELSE /\ obj_hp'[o] > 0
                   /\ last'.killed = <<>>
                   /\ last'.ret = <<>>
    ]_vars

\* a laser has killed a candidate that had 1 hp left
C5_Witness ==
    /\ last.op = "resolve_hits"
    /\ Len(last.struck) = 1
    /\ last.ret = last.struck
    /\ obj_hp[last.struck[1]] = 0

\* C6: a projectile stays in its live collection from the fire call that made
\* it until the first resolve call in which it collides with a candidate; after
\* that call it is out of the collection, lethal hit or not; it is never added
\* again; and a call in which nothing collides leaves the collection unchanged.
C6_ProjectileLeavesOnFirstHit ==
    [][/\ \A l \in lasers_fired \ lasers_fired' :
             /\ last'.op = "resolve_hits"
             /\ last'.proj = l
             /\ last'.struck # <<>>
       /\ \A l \in lasers_fired' \ lasers_fired :
             /\ last'.op = "shoot"
             /\ last'.proj = l
             /\ l \notin 1..lasers_made
       /\ (last'.op = "resolve_hits" /\ last'.struck # <<>>) =>
             last'.proj \notin lasers_fired'
       /\ (last'.op = "resolve_hits" /\ last'.struck = <<>>) =>
             lasers_fired' = lasers_fired
       /\ \A m \in missiles_fired \ missiles_fired' :
             /\ last'.op = "resolve_missiles"
             /\ last'.proj = m
             /\ last'.struck # <<>>
       /\ \A m \in missiles_fired' \ missiles_fired :
             /\ last'.op = "fire_missle"
             /\ last'.proj = m
             /\ m \notin 1..missiles_made
       /\ (last'.op = "resolve_missiles" /\ last'.struck # <<>>) =>
             last'.proj \notin missiles_fired'
       /\ (last'.op = "resolve_missiles" /\ last'.struck = <<>>) =>
             missiles_fired' = missiles_fired
    ]_vars

\* a laser retired by a hit that killed nothing, while a later laser is live
C6_Witness ==
    /\ last.op = "resolve_hits"
    /\ last.struck # <<>>
    /\ last.ret = <<>>
    /\ last.proj \notin lasers_fired
    /\ lasers_fired # {}
    /\ \A l \in lasers_fired : l > last.proj

C8_FiveCallsAdvanceOneFrame ==
    LET n == Len(idle_animation_frames) IN
    /\ (quiet_calls = 5 /\ n >= 1) =>
          /\ Len(frame_log) = 5
          /\ current_frame = (frame_log[1].frame + 1) % n
    /\ \A i \in 1..(Len(frame_log) - 1) :
          frame_log[i + 1].counter = frame_log[i].counter + 1
    /\ Len(frame_log) > 0 => animation_counter = frame_log[Len(frame_log)].counter + 1

\* 5 calls without glow, begun between two frame advances, wrap the last frame
\* of the longest sequence around to frame 0
C8_Witness ==
    /\ quiet_calls = 5
    /\ Len(idle_animation_frames) = MaxFrames
    /\ frame_log[1].counter % 5 # 0
    /\ frame_log[1].frame = MaxFrames - 1
    /\ current_frame = 0

\* C9: while the glow is active each frame index is cached at most once and the
\* cached image is that frame's un-glowed original; after an
\* update_idle_animation call made with the glow expired the cache is empty and
\* every image of the idle frame sequence equals its pre-glow original.
C9_GlowCacheKeepsOriginals ==
    [][(last'.op = "update_idle_animation" /\ animation_counter' = animation_counter + 1) =>
          IF last'.glow
          THEN /\ \A k \in DOMAIN original_images :
                     /\ k \in DOMAIN original_images'
                     /\ original_images'[k] = original_images[k]
               /\ \A k \in DOMAIN original_images' :
                     surfaces'[original_images'[k]] = OriginalPixel(k)
          ELSE /\ original_images' = EmptyDict
               /\ \A i \in 1..Len(idle_animation_frames') :
                     surfaces'[idle_animation_frames'[i]] = OriginalPixel(i - 1)
    ]_vars

\* C10: start_glow_effect sets glow_effect_end_time to the time of the call
\* + 200 whatever the previous end time was (calls at t and t + 50 leave it at
\* t + 250, not t + 400), and no other operation changes glow_effect_end_time.
C10_GlowEndIsCallTimePlus200 ==
    [][/\ (last'.op = "start_glow_effect" /\ now' = now) =>
             glow_effect_end_time' = now + 200
       /\ glow_effect_end_time' # glow_effect_end_time =>
             (last'.op = "start_glow_effect" /\ now' = now)
    ]_vars

\* a second call 50 ms after a first: the end time is t + 250
C10_Witness ==
    /\ last.op = "start_glow_effect"
    /\ last.at = now
    /\ last.before = (now - 50) + 200
    /\ glow_effect_end_time = (now - 50) + 250

\* C11: in every reachable state, also after the clock has passed
\* glow_effect_end_time and before the next update_idle_animation call, the
\* cache original_images is empty whenever no glow is active
\* (now >= glow_effect_end_time).
C11_CacheEmptyWhenNoGlow ==
    now >= glow_effect_end_time => original_images = EmptyDict

\* C11 as amended: the cache is empty before the first update_idle_animation
\* call and whenever the latest update_idle_animation call found no glow
\* active; between the expiry and that call it may still hold entries.
C11_CacheEmptyAfterQuietUpdate ==
    (animation_counter = 0 \/ quiet_calls > 0) => original_images = EmptyDict

\* an update call after the expiry has put a cached image back and cleared
\* the cache
C11_Witness ==
    /\ last.op = "update_idle_animation"
    /\ ~last.glow
    /\ quiet_calls = 1
    /\ original_images = EmptyDict
    /\ \E i \in 1..Len(idle_animation_frames) : idle_animation_frames[i] # i

\* C12: resolve_hits and resolve_missiles skip candidate entries that are
\* null or already dead (hp <= 0 before the call): such an entry, colliding or
\* not, keeps its hp, is not killed again, is not in the returned list and
\* does not make the projectile leave its live collection.
C12_DeadOrNullEntriesSkipped ==
    [][last'.op \in {"resolve_hits", "resolve_missiles"} =>
          /\ \A i \in 1..Len(last'.struck) : last'.struck[i] # None
          /\ \A o \in Objs : obj_hp[o] <= 0 =>
                /\ obj_hp'[o] = obj_hp[o]
                /\ o \notin Range(last'.killed)
                /\ o \notin Range(last'.ret)
          /\ (\A i \in 1..Len(last'.struck) : obj_hp[last'.struck[i]] <= 0) =>
                /\ lasers_fired' = lasers_fired
                /\ missiles_fired' = missiles_fired
    ]_vars

\* C13: when one laser overlaps k >= 2 candidates of the list in one
\* resolve_hits call, each of them loses exactly 1 hp, the hit sound plays k
\* times, the returned list holds exactly those of them whose hp is then <= 0,
\* in list order, and the laser is out of lasers_fired afterwards.
C13_OneLaserHitsEveryCollidingCandidate ==
    [][(last'.op = "resolve_hits" /\ Len(last'.collided) >= 2) =>
          LET hit == last'.collided IN
          /\ \A i \in 1..Len(hit) : obj_hp'[hit[i]] = obj_hp[hit[i]] - 1
          /\ \A o \in Objs \ Range(hit) : obj_hp'[o] = obj_hp[o]
          /\ last'.sfx.laser_hit = Len(hit)
          /\ last'.ret = DeadOf(hit, obj_hp')
          /\ last'.proj \notin lasers_fired'
    ]_vars

\* one laser has hit both candidates and killed only the second of the list
C13_Witness ==
    /\ last.op = "resolve_hits"
    /\ Len(last.collided) = 2
    /\ last.struck = last.collided
    /\ last.ret = <<last.collided[2]>>
    /\ obj_hp[last.collided[1]] > 0
    /\ last.proj \notin lasers_fired

\* C14: a fire_missle call takes effect exactly when missile_count > 0 and the
\* missile cooldown counter is 0: it then adds exactly one missile to
\* missiles_fired, takes 1 from missile_count, sets the counter to 1 and plays
\* the missile sound once; in every other case it changes nothing and plays
\* nothing.
C14_FireMissleIffStockedAndReady ==
    [][last'.op = "fire_missle" =>
          IF missile_count > 0 /\ missile_cooldown_counter = 0
          THEN /\ last'.fired
               /\ last'.proj \notin missiles_fired
               /\ missiles_fired' = missiles_fired \cup {last'.proj}
               /\ missile_count' = missile_count - 1
               /\ missile_cooldown_counter' = 1
               /\ last'.sfx = [NoSfx EXCEPT !.missile = 1]
               /\ UNCHANGED <<cooldown_counter, lasers_fired, obj_hp>>
          ELSE /\ ~last'.fired
               /\ last'.sfx = NoSfx
               /\ UNCHANGED <<weaponVars, obj_hp, animVars>>
    ]_vars

\* the last missile has just been fired
C14_Witness ==
    /\ last.op = "fire_missle"
    /\ last.fired
    /\ missile_count = 0
    /\ missile_cooldown_counter = 1
    /\ Cardinality(missiles_fired) = InitialMissiles

C16_CooldownsIndependent ==
    [][/\ last'.op \in {"shoot", "cooldown_cannon"} =>
             /\ missile_cooldown_counter' = missile_cooldown_counter
             /\ missile_count' = missile_count
             /\ missiles_fired' = missiles_fired
             /\ missile_cooldown_threshold' = missile_cooldown_threshold
       /\ last'.op \in {"fire_missle", "cooldown_missiles"} =>
             /\ cooldown_counter' = cooldown_counter
             /\ lasers_fired' = lasers_fired
             /\ cooldown_threshold' = cooldown_threshold
    ]_vars

\* the cannon has cooled down fully while a missile fired in between is still
\* at the start of its own cooldown
C16_Witness ==
    /\ cooldown_threshold > 1
    /\ last.op = "cooldown_cannon"
    /\ cooldown_counter = 0
    /\ cannon_ticks = cooldown_threshold
    /\ missile_cooldown_counter = 1
    /\ missile_ticks = 0
    /\ missile_count = InitialMissiles - 1

\* C17: a Player is never constructed with an empty idle_animation_frames
\* sequence (the constructor refuses it), so no update_idle_animation call
\* ever raises on the frame-count modulus.
C17_EmptyFramesRefusedAtConstruction ==
    ~(/\ Len(idle_animation_frames) = 0
      /\ last.op = "update_idle_animation"
      /\ last.raised)

\* C18: no operation raises missile_count; fire_missle adds at most 2 missiles
\* over the Player's life; and missile_count plus the number of fire_missle
\* calls that took effect is 2 in every state.
C18_MissileStockOnlyShrinks ==
    /\ [](/\ missile_count + missiles_made = InitialMissiles
          /\ missiles_made <= InitialMissiles)
    /\ [][/\ missile_count' <= missile_count
          /\ missiles_made' = missiles_made +
                (IF last'.op = "fire_missle" /\ last'.fired THEN 1 ELSE 0)
       ]_vars

\* both missiles have been fired and have hit: the stock stays at 0
C18_Witness ==
    /\ missiles_made = InitialMissiles
    /\ missile_count = 0
    /\ missiles_fired = {}
    /\ last.op = "resolve_missiles"
    /\ last.struck # <<>>

\* C19: in a game loop with one shoot attempt and one cooldown_cannon call per
\* frame, consecutive successful shots are exactly cooldown_threshold frames
\* apart, whichever of the two comes first in the frame: every attempt made
\* fewer than cooldown_threshold cooldown_cannon calls after a shot is refused,
\* the attempt made after the cooldown_threshold-th call takes effect, and no
\* further cooldown_cannon call comes in between.
C19_ShotsThresholdFramesApart ==
    [][/\ (last'.op = "shoot" /\ cannon_ticks # -1) =>
             (last'.fired <=> cannon_ticks = cooldown_threshold)
       /\ (last'.op = "cooldown_cannon" /\ cannon_ticks # -1) =>
             /\ cannon_ticks < cooldown_threshold
             /\ cannon_ticks' = cannon_ticks + 1
    ]_vars

\* the second shot of the loop, MaxThreshold frames after the first
C19_Witness ==
    /\ cooldown_threshold = MaxThreshold
    /\ last.op = "shoot"
    /\ last.fired
    /\ last.proj = 2
    /\ lasers_fired = {1, 2}
    /\ missiles_made = 0

\* C20: after every update_idle_animation call, under every interleaving with
\* start_glow_effect and the clock, the displayed image img is the very
\* Surface stored at idle_animation_frames[current_frame]; so after a restore
\* it is the restored un-glowed frame.
C20_DisplayedImageIsCurrentFrame ==
    (last.op = "update_idle_animation" /\ ~last.raised) =>
        img = idle_animation_frames[current_frame + 1]
====
